---- MODULE Spec2Model ----
(***************************************************************************)
(* Parking occupancy tracker: the server zone store (MemStorage and the    *)
(* /api/enter route), the client ParkingProvider with the three revisions  *)
(* of restoreData, the IndexedDB event log with rebuildStateFromEvents,    *)
(* the PoliceBackup snapshot store with JSON export / import, Quick        *)
(* Recovery and Manual Log on the backup pages, the Admin zone form, the   *)
(* provider's auto-save interval and the polling of Home and Admin.        *)
(*                                                                         *)
(* Strings that the code compares or searches (zone ids, zone names,       *)
(* record.zone) are sequences of atomic pieces, so that === is sequence    *)
(* equality and String.includes is a contiguous-subsequence test.          *)
(***************************************************************************)
EXTENDS Integers, Sequences, FiniteSets, TLC

VARIABLES
    srvZones,     \* MemStorage.zones: the Map's values in insertion order
    entries,      \* number of /api/enter requests served so far
    lastEntry,    \* the last /api/enter request and its answer
    rev,          \* which revision of parking-context is loaded: "api", "p002", "p003"
    zones,        \* ParkingProvider state `zones`
    records,      \* the record list handed to restoreData
    restoreLog,   \* per record of the last restoreData call: what was done with it
    refreshDue,   \* restoreData asked for refreshData() and the fetch has not landed
    events,       \* IndexedDB store "events", in key order
    now,          \* the wall clock read by Date.now() / new Date()
    rebuilt,      \* result of the last rebuildStateFromEvents call
    prevRebuilt,  \* result of the call before it
    logAtRebuild, \* the event store as the last rebuildStateFromEvents call found it
    calls,        \* rebuildStateFromEvents calls since the last appendEvent
    backups,      \* PoliceBackup IndexedDB store "backups", in key order
    nextId,       \* the store's autoIncrement key generator
    file,         \* the text of the downloaded .json file, or NoFile
    exported,     \* the snapshot that exportJSON was last called with
    imported,     \* key of the snapshot added by the last handleImportJSON, or 0
    snapshots,    \* PoliceBackup state `snapshots`: the list on the page
    quota,        \* how many snapshots the browser's storage lets the page save
    snapStore,    \* IndexedDB store "backups" of nilakkal-police-events-db, by key
    saves,        \* the saveLatestSnapshot calls that completed: key and payload
    loaded,       \* what the last loadLatestSnapshotPayload call resolved with
    recovery,     \* the backup page: isProcessing, the Quick Recovery and Manual Log
                  \* instances in flight, the last answer and its outcome
    formData,     \* Admin page state `formData`: name, capacity, limits
    dialog,       \* Admin page state isEditOpen, isCreateOpen, editingZone (its id)
    submitted,    \* the formData the last handleCreate / handleSaveEdit sent off
    timer,        \* the provider's auto-save interval and what its last firings did
    poll          \* a polling page (Home, Admin): its zones state, whether it is
                  \* mounted, and its /api/zones fetches in flight, oldest first

vars == <<srvZones, entries, lastEntry, rev, zones, records, restoreLog,
          refreshDue, events, now, rebuilt, prevRebuilt, logAtRebuild, calls,
          backups, nextId, file, exported, imported, snapshots, quota,
          snapStore, saves, loaded, recovery, formData, dialog, submitted, timer,
          poll>>

serverVars == <<srvZones, entries, lastEntry>>
clientVars == <<rev, zones, records, restoreLog, refreshDue>>
eventVars == <<events, now, rebuilt, prevRebuilt, logAtRebuild, calls>>
backupVars == <<backups, nextId, file, exported, imported, snapshots, quota>>
latestVars == <<snapStore, saves, loaded>>

\* what the pages and stores other than the ones above hold
recoveryVars == <<recovery>>
formVars == <<formData, dialog, submitted>>
timerVars == <<timer>>
pageVars == <<poll>>
restVars == <<latestVars, recoveryVars, formVars, timerVars, pageVars>>

---------------------------------------------------------------------------
(* Bounds of the model *)

\* zones the server may hold / INITIAL_ZONES is scaled to
MaxZones == 2
\* /api/enter requests in one behaviour
MaxEntries == 3
\* length of a record list handed to restoreData
MaxRecords == 2
\* events in the IndexedDB event store
MaxEvents == 3
\* largest value of the wall clock
MaxTime == 2
\* snapshots in the PoliceBackup store
MaxSnapshots == 1
\* records in a snapshot taken by handleSaveSnapshot
MaxData == 2
\* saveLatestSnapshot calls in one behaviour
MaxSaves == 3
\* clicks on one control of a backup page that are followed while in flight
MaxRunning == 2
\* /api/zones fetches of a polling page in flight at once
MaxInFlight == 2
\* snapshots on the PoliceBackup page when its list is what is looked at
MaxListed == 3

---------------------------------------------------------------------------
(* Values *)

VehicleTypes == {"heavy", "medium", "light"}

\* a type value that is none of the three classes (restoreData defaults it to light)
BadType == "bus"

\* JavaScript's undefined as a property key or a type value (an omitted field)
Undefined == "undefined"

\* a request that carries no zone id: it equals no zone's id
Omitted == <<>>

\* JavaScript null
Null == "null"

ZeroStats == [heavy |-> 0, medium |-> 0, light |-> 0]

\* zone.stats when it is null: nothing to index
NullStats == <<>>

Digit == <<"1", "2", "3", "4", "5", "6", "7", "8", "9">>

\* the id `Z${n}`
ZId(n) == <<"Z", Digit[n]>>

\* the name `Nilakkal Parking Zone ${n}`
ZName(n) == <<"Nilakkal Parking Zone ", Digit[n]>>

\* String.prototype.includes
Includes(s, t) ==
    \E i \in 0..(Len(s) - Len(t)) : SubSeq(s, i + 1, i + Len(t)) = t

\* Array.prototype.find: the index of the first element that satisfies the test,
\* given the indices of all that do; 0 if none does
FindIndex(hits) ==
    IF hits = {} THEN 0 ELSE CHOOSE i \in hits : \A j \in hits : i <= j

SumStats(s) == s.heavy + s.medium + s.light

---------------------------------------------------------------------------
(* Server: MemStorage and POST /api/enter *)

\* what an admin may submit to POST /api/zones (insertZoneSchema: name, capacity, limits)
ZoneA == [name |-> ZName(1), capacity |-> 1,
          limits |-> [heavy |-> 0, medium |-> 1, light |-> 0]]
ZoneB == [name |-> ZName(2), capacity |-> 2,
          limits |-> [heavy |-> 1, medium |-> 0, light |-> 1]]
InsertZones == {ZoneA, ZoneB}

\* MemStorage.createZone: id is Z<size+1>; Map.set keeps the position of an existing key
createZone(store, insertZone) ==
    LET id == ZId(Len(store) + 1)
        newZone == [id |-> id, name |-> insertZone.name,
                    capacity |-> insertZone.capacity, limits |-> insertZone.limits,
                    occupied |-> 0, stats |-> ZeroStats, junk |-> {}]
        at == FindIndex({i \in 1..Len(store) : store[i].id = id})
    IN IF at = 0 THEN Append(store, newZone) ELSE [store EXCEPT ![at] = newZone]

\* MemStorage.deleteZone: Map.delete
deleteZone(store, id) ==
    SelectSeq(store, LAMBDA z : z.id # id)

\* zone.stats[type] += 1: a class key counts up; any other key becomes NaN on the
\* stats object (recorded in junk) and leaves the three class counters alone
BumpStats(zone, type) ==
    IF type \in VehicleTypes
    THEN [zone EXCEPT !.stats[type] = @ + 1]
    ELSE [zone EXCEPT !.junk = @ \cup {type}]

\* MemStorage.createVehicleEntry: the index of the zone it mutates, 0 when it throws
EntryTarget(store, entry) ==
    FindIndex({i \in 1..Len(store) : store[i].id = entry.zoneId})

\* MemStorage.createVehicleEntry throws: "Zone not found" on its second line, or a
\* TypeError at zone.stats[type] += 1 when the zone holds no stats object
EntryThrows(store, entry) ==
    LET at == EntryTarget(store, entry)
    IN at = 0 \/ store[at].stats = NullStats

\* MemStorage.createVehicleEntry: the store after the call, thrown or not
\* (zone.occupied += 1 comes before zone.stats[type] += 1 and writes into the
\* object the map holds)
createVehicleEntry(store, entry) ==
    LET at == EntryTarget(store, entry)
    IN IF at = 0 THEN store
       ELSE IF store[at].stats = NullStats
            THEN [store EXCEPT ![at].occupied = @ + 1]
            ELSE [store EXCEPT ![at] = BumpStats([@ EXCEPT !.occupied = @ + 1],
                                                 entry.type)]

\* POST /api/enter: try { createVehicleEntry; success:true } catch { 400 success:false }
postEnter(store, entry) ==
    [zones |-> createVehicleEntry(store, entry),
     success |-> ~EntryThrows(store, entry)]

\* MemStorage.updateZone: updated = {...existing, ...data}; the zones are unchanged
\* when it throws "Zone not found"
updateZone(store, id, data) ==
    LET at == FindIndex({i \in 1..Len(store) : store[i].id = id})
    IN IF at = 0 THEN store
       ELSE [store EXCEPT ![at] =
                [k \in DOMAIN @ |-> IF k \in DOMAIN data THEN data[k] ELSE @[k]]]

\* req.body of POST /api/zones/:id, which the route hands to updateZone as it comes
UpdateBodies == {[stats |-> NullStats]}

\* the body the provider's updateZone sends for an edit: {name, limits}, no capacity
EditBodies ==
    {[name |-> ZName(n), limits |-> [heavy |-> h, medium |-> m, light |-> l]] :
        n \in 1..MaxZones, h \in 0..1, m \in 0..1, l \in 0..1}

NoEntry == [status |-> "none", zone |-> Omitted, type |-> Undefined, returned |-> "none"]

\* request bodies of POST /api/enter: zone is an id, a missing id, or omitted
EnterZones == {ZId(n) : n \in 1..(MaxZones + 1)} \cup {Omitted}
EnterTypes == {"heavy", "light", BadType, Undefined}

\* POST /api/zones
CreateZone(insertZone) ==
    /\ Len(srvZones) < MaxZones
    /\ srvZones' = createZone(srvZones, insertZone)
    /\ UNCHANGED <<entries, lastEntry, clientVars, eventVars, backupVars, restVars>>

\* POST /api/zones/:id/delete
DeleteZone(id) ==
    /\ srvZones' = deleteZone(srvZones, id)
    /\ UNCHANGED <<entries, lastEntry, clientVars, eventVars, backupVars, restVars>>

\* POST /api/zones/:id: the updated zone, or 500 when storage throws
UpdateZone(id, data) ==
    /\ srvZones' = updateZone(srvZones, id, data)
    /\ UNCHANGED <<entries, lastEntry, clientVars, eventVars, backupVars, restVars>>

\* POST /api/enter sent as Home.tsx sends it: success:true with a ticket, or 400
\* success:false when storage throws
Enter(zone, type) ==
    /\ entries < MaxEntries
    /\ entries' = entries + 1
    /\ LET out == postEnter(srvZones, [zoneId |-> zone, type |-> type])
       IN /\ srvZones' = out.zones
          /\ lastEntry' = [status |-> IF out.success THEN "ok" ELSE "fail",
                           zone |-> zone, type |-> type, returned |-> "none"]
    /\ UNCHANGED <<clientVars, eventVars, backupVars, restVars>>

ServerNext ==
    \/ \E z \in InsertZones : CreateZone(z)
    \/ \E n \in 1..MaxZones : DeleteZone(ZId(n))
    \/ \E z \in EnterZones, t \in EnterTypes : Enter(z, t)

ServerInit ==
    /\ srvZones = <<>>
    /\ entries = 0
    /\ lastEntry = NoEntry

---------------------------------------------------------------------------
(* Client: ParkingProvider (parking-context), three revisions of restoreData *)

Revs == {"api", "p002", "p003"}

\* const ZONES_COUNT / ZONE_CAPACITY, scaled down (the source has 20 zones of 50)
ZONES_COUNT == 2
ZONE_CAPACITY == 5

\* INITIAL_ZONES: heavy 20%, medium 30% (both floored), light the rest
INITIAL_ZONES ==
    [i \in 1..ZONES_COUNT |->
        LET heavyLimit == (ZONE_CAPACITY * 2) \div 10
            mediumLimit == (ZONE_CAPACITY * 3) \div 10
            lightLimit == ZONE_CAPACITY - heavyLimit - mediumLimit
        IN [id |-> ZId(i), name |-> ZName(i), capacity |-> ZONE_CAPACITY,
            occupied |-> 0, vehicles |-> <<>>,
            limits |-> [heavy |-> heavyLimit, medium |-> mediumLimit,
                        light |-> lightLimit],
            stats |-> ZeroStats, junk |-> {}]]

\* refreshData: normalized = data.map(z => ({...z, vehicles: [],
\* stats: z.stats || {heavy: 0, medium: 0, light: 0}}))
Normalize(data) ==
    [i \in 1..Len(data) |->
        [id |-> data[i].id, name |-> data[i].name, capacity |-> data[i].capacity,
         occupied |-> data[i].occupied, vehicles |-> <<>>,
         limits |-> data[i].limits,
         stats |-> IF data[i].stats = NullStats THEN ZeroStats ELSE data[i].stats,
         junk |-> data[i].junk]]

\* newZones = base.map(z => ({...z, occupied: 0, vehicles: [], stats: {0,0,0}}))
ResetZones(base) ==
    [i \in 1..Len(base) |->
        [base[i] EXCEPT !.occupied = 0, !.vehicles = <<>>, !.stats = ZeroStats,
                        !.junk = {}]]

\* rec.timeOut of a closed record (Null is that of an open one)
Closed == "2025-01-01T11:00:00Z"

\* rec.timeIn
TimeIn == "2025-01-01T10:00:00Z"

Plates == {"KL01AB1234", "KL01CD5678"}

\* the plate and the type values of the records handed to restoreData
RestorePlates == {"KL01AB1234"}
RecordTypes == {"heavy", "light", BadType}

\* values of record.zone: a zone name, a zone id, a fragment of a zone name,
\* and a value that is part of no name and contains no id
ZoneKeys == {ZName(1), ZId(2), <<Digit[2]>>, <<"Pamba">>}

VehicleRecords ==
    [plate : RestorePlates, zone : ZoneKeys, timeIn : {TimeIn},
     timeOut : {Null, Closed}, type : RecordTypes]

RECURSIVE SeqsUpTo(_, _)
SeqsUpTo(S, n) ==
    IF n = 0 THEN {<<>>}
    ELSE LET shorter == SeqsUpTo(S, n - 1)
         IN shorter \cup {Append(q, x) : q \in {r \in shorter : Len(r) = n - 1}, x \in S}

RecordLists == SeqsUpTo(VehicleRecords, MaxRecords)

\* suffixes Math.random().toString(36).substr(2, 5) may give
Suffixes == {"k3f9a", "zz1q0"}

\* newZones.find(z => z.name === rec.zone || z.id === rec.zone)
MatchExact(zs, rec) ==
    FindIndex({i \in 1..Len(zs) : zs[i].name = rec.zone \/ zs[i].id = rec.zone})

\* part_002: find by name, else find by id
MatchNameThenId(zs, rec) ==
    LET byName == FindIndex({i \in 1..Len(zs) : zs[i].name = rec.zone})
    IN IF byName # 0 THEN byName ELSE FindIndex({i \in 1..Len(zs) : zs[i].id = rec.zone})

\* part_002: find(z => z.name.includes(rec.zone) || rec.zone.includes(z.id)),
\* tried only when rec.zone is truthy
MatchFuzzy(zs, rec) ==
    IF rec.zone = <<>> THEN 0
    ELSE FindIndex({i \in 1..Len(zs) :
                      Includes(zs[i].name, rec.zone) \/ Includes(rec.zone, zs[i].id)})

\* a fallback that takes the last zone of the list instead of the first
LastZone(zs, at) ==
    IF at # 0 THEN at ELSE Len(zs)

\* if (!zone) zone = newZones[0]
FirstZone(zs, at) ==
    IF at # 0 THEN at ELSE 1

\* part_003: if (!zone) { if (newZones.length > 0) zone = newZones[0]; else return; }
FirstZoneIfAny(zs, at) ==
    IF at # 0 THEN at ELSE IF Len(zs) > 0 THEN 1 ELSE 0

\* ['heavy','medium','light'].includes(rec.type) ? rec.type : 'light'
ValidType(type) ==
    IF type \in VehicleTypes THEN type ELSE "light"

\* zone.occupied < zone.capacity && zone.stats[t] < zone.limits[t]
HasRoom(z, t) ==
    z.occupied < z.capacity /\ z.stats[t] < z.limits[t]

\* part_003: zone.occupied < zone.capacity
HasCapacity(z) ==
    z.occupied < z.capacity

\* zone.vehicles.push({...}); zone.occupied++; zone.stats[vehicleType]++
Park(zs, at, rec, t, ticket) ==
    [zs EXCEPT ![at] =
        [@ EXCEPT !.vehicles = Append(@, [number |-> rec.plate, entryTime |-> rec.timeIn,
                                          zoneId |-> zs[at].id, ticketId |-> ticket,
                                          type |-> t]),
                  !.occupied = @ + 1,
                  !.stats[t] = @ + 1]]

\* what one pass of the forEach body did: skipped = returned before choosing a zone,
\* matched = the zone the revision's find calls gave (0 if none), target = the zone chosen
\* before the guard, placed = the zone the vehicle was pushed to (0 if none)
LogEntry(skipped, matched, target, placed) ==
    [skipped |-> skipped, matched |-> matched, target |-> target, placed |-> placed]

\* an element of the list that is null: reading a property of it throws a TypeError
NullRecord == <<>>

\* the forEach callback threw: the pass ends there
Thrown(acc) ==
    [acc EXCEPT !.thrown = TRUE]

\* api.ts 282-300
StepApi(acc, rec, tick) ==
    IF rec = NullRecord THEN Thrown(acc)
    ELSE IF rec.timeOut # Null THEN [acc EXCEPT !.log = Append(@, LogEntry(TRUE, 0, 0, 0))]
    ELSE LET m == MatchExact(acc.zones, rec)
             at == FirstZone(acc.zones, m)
             t == ValidType(rec.type)
         IN IF HasRoom(acc.zones[at], t)
            THEN [acc EXCEPT !.zones = Park(acc.zones, at, rec, t, <<"RES-", tick>>),
                             !.log = Append(acc.log, LogEntry(FALSE, m, at, at))]
            ELSE [acc EXCEPT !.log = Append(@, LogEntry(FALSE, m, at, 0))]

\* part_002 232-265
StepP002(acc, rec, tick, suffix) ==
    IF rec = NullRecord THEN Thrown(acc)
    ELSE IF rec.timeOut # Null THEN [acc EXCEPT !.log = Append(@, LogEntry(TRUE, 0, 0, 0))]
    ELSE LET m == MatchNameThenId(acc.zones, rec)
             f == IF m # 0 THEN m ELSE MatchFuzzy(acc.zones, rec)
             at == FirstZone(acc.zones, f)
             t == ValidType(rec.type)
             backupZone == FindIndex({i \in 1..Len(acc.zones) : HasRoom(acc.zones[i], t)})
             to == IF HasRoom(acc.zones[at], t) THEN at ELSE backupZone
         IN IF to # 0
            THEN [acc EXCEPT !.zones = Park(acc.zones, to, rec, t,
                                            <<"RES-", tick, suffix>>),
                             !.log = Append(acc.log, LogEntry(FALSE, f, at, to))]
            ELSE [acc EXCEPT !.log = Append(@, LogEntry(FALSE, f, at, 0))]

\* part_003 290-318 (with no zone the find callback never reads the record)
StepP003(acc, rec, tick, suffix) ==
    IF Len(acc.zones) = 0 THEN [acc EXCEPT !.log = Append(@, LogEntry(TRUE, 0, 0, 0))]
    ELSE IF rec = NullRecord THEN Thrown(acc)
    ELSE
    LET m == MatchExact(acc.zones, rec)
        at == FirstZoneIfAny(acc.zones, m)
        t == ValidType(rec.type)
    IN IF at = 0 THEN [acc EXCEPT !.log = Append(@, LogEntry(TRUE, 0, 0, 0))]
       ELSE IF HasCapacity(acc.zones[at])
            THEN [acc EXCEPT !.zones = Park(acc.zones, at, rec, t,
                                            <<"RES-", tick, suffix>>),
                             !.log = Append(acc.log, LogEntry(FALSE, m, at, at))]
            ELSE [acc EXCEPT !.log = Append(@, LogEntry(FALSE, m, at, 0))]

\* records.forEach(rec => ...) of revision r
RECURSIVE ForEach(_, _, _, _, _, _)
ForEach(r, acc, recs, i, tick, rnd) ==
    IF i > Len(recs) \/ acc.thrown THEN acc
    ELSE LET next == CASE r = "api" -> StepApi(acc, recs[i], tick)
                       [] r = "p002" -> StepP002(acc, recs[i], tick, rnd[i])
                       [] r = "p003" -> StepP003(acc, recs[i], tick, rnd[i])
         IN ForEach(r, next, recs, i + 1, tick, rnd)

\* the base restoreData resets: INITIAL_ZONES (api.ts 275, part_002 225),
\* the current zones state (part_003 283)
RestoreBase(r, current) ==
    IF r = "p003" THEN current ELSE INITIAL_ZONES

\* restoreData(recs) up to setZones(newZones): the new zones, the pass log and
\* whether the pass threw
restoreData(r, current, recs, tick, rnd) ==
    ForEach(r, [zones |-> ResetZones(RestoreBase(r, current)), log |-> <<>>,
                thrown |-> FALSE],
            recs, 1, tick, rnd)

\* what MemStorage holds when GET /api/zones is answered: two zones, a vehicle in each
TwoZonesBusy ==
    createVehicleEntry(
        createVehicleEntry(createZone(createZone(<<>>, ZoneA), ZoneB),
                           [zoneId |-> ZId(1), type |-> "medium"]),
        [zoneId |-> ZId(2), type |-> "light"])

NoRestore == [state |-> "none", log |-> <<>>]

\* the suffix drawn for each record (the api.ts ticket id has none)
SuffixDraws(r, n) ==
    IF r = "api" THEN {[i \in 1..n |-> ""]} ELSE [1..n -> Suffixes]

\* enterVehicle(vehicleNumber, type, zoneId): the request, then on success
\* refreshData() and a ticket; a 400 makes apiPost throw and the catch returns
\* success:false
EnterVehicle(zone, type) ==
    /\ entries < MaxEntries
    /\ entries' = entries + 1
    /\ LET out == postEnter(srvZones, [zoneId |-> zone, type |-> type])
       IN /\ srvZones' = out.zones
          /\ lastEntry' = [status |-> IF out.success THEN "ok" ELSE "fail",
                           zone |-> zone, type |-> type,
                           returned |-> IF out.success THEN "success" ELSE "failure"]
          /\ zones' = IF out.success THEN Normalize(out.zones) ELSE zones
          /\ refreshDue' = IF out.success THEN FALSE ELSE refreshDue
          /\ restoreLog' = IF out.success THEN NoRestore ELSE restoreLog
    /\ UNCHANGED <<rev, records, eventVars, backupVars, restVars>>

\* refreshData: GET /api/zones answered, setZones(normalized)
RefreshData ==
    /\ zones' = Normalize(srvZones)
    /\ refreshDue' = FALSE
    /\ restoreLog' = NoRestore
    /\ UNCHANGED <<rev, records, serverVars, eventVars, backupVars, restVars>>

\* restoreData(records): part_003 hands an empty list over to refreshData();
\* otherwise the zones are rebuilt from the records and set
\* a restore that works on the zones state itself: what the pass did before it
\* threw is there
SetAsItGoes(current, out) ==
    out.zones

\* setZones(newZones) is the last statement: a pass that threw never reaches it
SetZones(current, out) ==
    IF out.thrown THEN current ELSE out.zones

RestoreWith(recs) ==
    IF rev = "p003" /\ recs = <<>>
    THEN /\ refreshDue' = TRUE
         /\ restoreLog' = [state |-> "deferred", log |-> <<>>]
         /\ zones' = zones
    ELSE \E rnd \in SuffixDraws(rev, Len(recs)) :
           LET out == restoreData(rev, zones, recs, now, rnd)
           IN /\ zones' = SetZones(zones, out)
              /\ restoreLog' = [state |-> IF out.thrown THEN "thrown" ELSE "set",
                                log |-> out.log]
              /\ refreshDue' = refreshDue

\* restoreData called with the record list at hand
RestoreData ==
    /\ RestoreWith(records)
    /\ UNCHANGED <<rev, records, serverVars, eventVars, backupVars, restVars>>

\* the Restore button of a snapshot on the PoliceBackup page: onRestore(snap.data)
RestoreSnapshot(data) ==
    /\ records' = data
    /\ RestoreWith(data)
    /\ UNCHANGED <<rev, serverVars, eventVars, backupVars, restVars>>

ClientNext ==
    \/ RefreshData
    \/ RestoreData

\* the provider as mounted, with nothing to restore
ClientInitIdle ==
    /\ rev = "api"
    /\ records = <<>>
    /\ zones = <<>>
    /\ restoreLog = NoRestore
    /\ refreshDue = FALSE

ClientInit ==
    /\ rev \in Revs
    /\ records \in RecordLists
    /\ zones = <<>>
    /\ restoreLog = NoRestore
    /\ refreshDue = FALSE

---------------------------------------------------------------------------
(* persistence: the IndexedDB event log and rebuildStateFromEvents *)

\* records carried by events: per plate, still parked or gone
EventRecords ==
    [plate : Plates, zone : {ZName(1)}, timeIn : {TimeIn}, timeOut : {Null, Closed},
     type : {"light"}]

\* a rebuild that trusts the key order of getAll() and does not sort
Unsorted(evs) ==
    evs

\* events.sort((a, b) => time(a.createdAt) - time(b.createdAt)): the sort is stable,
\* so an event goes behind every event that is not later than it
RECURSIVE SortByCreatedAt(_)
SortByCreatedAt(evs) ==
    IF evs = <<>> THEN <<>>
    ELSE LET last == evs[Len(evs)]
             front == SortByCreatedAt(SubSeq(evs, 1, Len(evs) - 1))
             keep == SelectSeq(front, LAMBDA e : e.createdAt <= last.createdAt)
             after == SelectSeq(front, LAMBDA e : e.createdAt > last.createdAt)
         IN keep \o <<last>> \o after

\* vehicleMap.set(record.plate, record): a Map keeps the position of a key it has
MapSet(map, record) ==
    LET at == FindIndex({i \in 1..Len(map) : map[i].plate = record.plate})
    IN IF at = 0 THEN Append(map, record) ELSE [map EXCEPT ![at] = record]

\* for (const event of events) vehicleMap.set(event.record.plate, event.record)
RECURSIVE Replay(_, _)
Replay(map, evs) ==
    IF evs = <<>> THEN map
    ELSE Replay(MapSet(map, evs[1].record), Tail(evs))

\* rebuildStateFromEvents: Array.from(vehicleMap.values())
rebuildStateFromEvents(store) ==
    Replay(<<>>, SortByCreatedAt(store))

\* a read that consumes the events it hands out
Drained(store) ==
    <<>>

\* readAllEvents: a readonly transaction whose getAll() hands out copies, so the
\* sort that follows works on the copy and the store keeps what it had
StoreAfterRead(store) ==
    store

\* appendEvent(record): createdAt is read from the clock as the event is added
AppendEvent(record) ==
    /\ Len(events) < MaxEvents
    /\ events' = Append(events, [createdAt |-> now, record |-> record])
    /\ calls' = 0
    /\ UNCHANGED <<now, rebuilt, prevRebuilt, logAtRebuild>>
    /\ UNCHANGED <<serverVars, clientVars, backupVars, restVars>>

\* time passes
Tick ==
    /\ now < MaxTime
    /\ now' = now + 1
    /\ UNCHANGED <<events, rebuilt, prevRebuilt, logAtRebuild, calls>>
    /\ UNCHANGED <<serverVars, clientVars, backupVars, restVars>>

\* the wall clock is set back (Date is not monotonic)
ClockSetBack ==
    /\ now > 1
    /\ now' = now - 1
    /\ UNCHANGED <<events, rebuilt, prevRebuilt, logAtRebuild, calls>>
    /\ UNCHANGED <<serverVars, clientVars, backupVars, restVars>>

\* rebuildStateFromEvents()
Rebuild ==
    /\ rebuilt' = rebuildStateFromEvents(events)
    /\ prevRebuilt' = rebuilt
    /\ logAtRebuild' = events
    /\ events' = StoreAfterRead(events)
    /\ calls' = IF calls < 2 THEN calls + 1 ELSE 2
    /\ UNCHANGED <<now, serverVars, clientVars, backupVars, restVars>>

EventNext ==
    \/ \E r \in EventRecords : AppendEvent(r)
    \/ Tick
    \/ ClockSetBack
    \/ Rebuild

EventInit ==
    /\ events = <<>>
    /\ now = 1
    /\ rebuilt = <<>>
    /\ prevRebuilt = <<>>
    /\ logAtRebuild = <<>>
    /\ calls = 0

---------------------------------------------------------------------------
(* PoliceBackup: the snapshot store, exportJSON and handleImportJSON *)

\* JSON text, as the tree JSON.stringify writes and JSON.parse reads
JNull == <<"null">>
JStr(v) == <<"str", v>>
JNum(n) == <<"num", n>>
JArr(items) == <<"arr", items>>
JObj(members) == <<"obj", members>>

\* a member "key": value of an object
Member(key, value) == <<key, value>>

IsObj(j) == j[1] = "obj"
IsArr(j) == j[1] = "arr"

HasMember(j, key) ==
    IsObj(j) /\ \E i \in 1..Len(j[2]) : j[2][i][1] = key

\* content.key of a parsed object that has the member
Get(j, key) ==
    j[2][CHOOSE i \in 1..Len(j[2]) : j[2][i][1] = key][2]

\* a serializer that writes a null field as the empty string
BlankField(v) ==
    IF v = Null THEN JStr("") ELSE JStr(v)

\* JSON.stringify of a string-or-null field: null is written as the literal null
StringifyField(v) ==
    IF v = Null THEN JNull ELSE JStr(v)

\* JSON.stringify of a VehicleRecord: its own properties in insertion order; a
\* property the record does not have (type, in records built from zone.vehicles)
\* is not written
StringifyRecord(rec) ==
    JObj(<<Member("plate", JStr(rec.plate)),
           Member("zone", JStr(rec.zone)),
           Member("timeIn", JStr(rec.timeIn)),
           Member("timeOut", StringifyField(rec.timeOut))>>
         \o (IF rec.type = Undefined THEN <<>> ELSE <<Member("type", JStr(rec.type))>>))

\* JSON.stringify(snapshot, null, 2)
Stringify(snapshot) ==
    JObj(<<Member("id", JNum(snapshot.id)),
           Member("meta", JObj(<<Member("app", JStr(snapshot.meta.app)),
                                 Member("version", JNum(snapshot.meta.version)),
                                 Member("createdAt", JStr(snapshot.meta.createdAt)),
                                 Member("recordCount", JNum(snapshot.meta.recordCount))>>)),
           Member("data", JArr([i \in 1..Len(snapshot.data) |->
                                   StringifyRecord(snapshot.data[i])]))>>)

\* JSON.parse of a string-or-null field
ParseField(j) ==
    IF j = JNull THEN Null ELSE j[2]

\* JSON.parse of one element of content.data
ParseRecord(j) ==
    [plate |-> Get(j, "plate")[2], zone |-> Get(j, "zone")[2],
     timeIn |-> Get(j, "timeIn")[2], timeOut |-> ParseField(Get(j, "timeOut")),
     type |-> IF HasMember(j, "type") THEN Get(j, "type")[2] ELSE Undefined]

\* text that JSON.parse rejects
NotJson == <<"not json">>

\* a well-formed file that is no backup: it has no data array
NoDataFile == JObj(<<Member("meta", JObj(<<Member("version", JNum(1))>>))>>)

\* a createdAt text that new Date() cannot parse: getTime() is NaN
NotADate == -1

\* a backup written by something else: it has a data array, and a createdAt that
\* is no date
BadDateFile ==
    JObj(<<Member("meta", JObj(<<Member("createdAt", JStr(NotADate))>>)),
           Member("data", JArr(<<>>))>>)

NoFile == <<>>
NoSnapshot == [id |-> 0]
appName == "nilakkal-police-admin"

\* records getRecords() may return for a snapshot: one built from a server report
\* row (it has a type) and one built from zone.vehicles (it has none)
SnapshotRecords ==
    {[plate |-> "KL01AB1234", zone |-> ZName(1), timeIn |-> TimeIn, timeOut |-> Null,
      type |-> "light"],
     [plate |-> "KL01CD5678", zone |-> ZName(1), timeIn |-> TimeIn, timeOut |-> Null,
      type |-> Undefined]}

SnapshotData == SeqsUpTo(SnapshotRecords, MaxData)

\* handleImportJSON's checks: JSON.parse succeeds and content.data is an array
Importable(text) ==
    /\ text # NotJson
    /\ HasMember(text, "data")
    /\ IsArr(Get(text, "data"))

\* the object handleImportJSON adds (content.meta?.version || 1,
\* content.meta?.createdAt || now), under the key the store generates
ImportedSnapshot(text, id, clock) ==
    LET data == Get(text, "data")[2]
        hasMeta == HasMember(text, "meta")
        version == IF hasMeta /\ HasMember(Get(text, "meta"), "version")
                      /\ Get(Get(text, "meta"), "version")[2] # 0
                   THEN Get(Get(text, "meta"), "version")[2] ELSE 1
        createdAt == IF hasMeta /\ HasMember(Get(text, "meta"), "createdAt")
                     THEN Get(Get(text, "meta"), "createdAt")[2] ELSE clock
    IN [id |-> id,
        meta |-> [app |-> appName, version |-> version, createdAt |-> createdAt,
                  recordCount |-> Len(data)],
        data |-> [i \in 1..Len(data) |-> ParseRecord(data[i])]]

\* the comparator (a, b) => new Date(b.meta.createdAt).getTime() -
\* new Date(a.meta.createdAt).getTime(); sort reads a NaN result as +0
CompareCreatedAt(a, b) ==
    IF a.meta.createdAt = NotADate \/ b.meta.createdAt = NotADate
    THEN 0
    ELSE b.meta.createdAt - a.meta.createdAt

\* one insertion of the sort: x goes in front of the elements at the end of the
\* sorted run that the comparator puts after it
InsertSnapshot(run, x) ==
    LET behind == {i \in 0..Len(run) :
                     \A j \in (i + 1)..Len(run) : CompareCreatedAt(x, run[j]) < 0}
        at == CHOOSE i \in behind : \A k \in behind : i <= k
    IN SubSeq(run, 1, at) \o <<x>> \o SubSeq(run, at + 1, Len(run))

\* result.sort(comparator): an insertion sort, as the engine does on short arrays
RECURSIVE SortSnapshots(_)
SortSnapshots(result) ==
    IF result = <<>> THEN <<>>
    ELSE InsertSnapshot(SortSnapshots(SubSeq(result, 1, Len(result) - 1)),
                        result[Len(result)])

\* loadLocalSnapshots(db): store.getAll(), sorted, set as the list
loadLocalSnapshots(store) ==
    SortSnapshots(store)

\* handleSaveSnapshot: getRecords(), then store.add(snapshot), and on success
\* loadLocalSnapshots
SaveSnapshot(data) ==
    /\ Len(backups) < quota
    /\ nextId <= quota + 1
    /\ backups' = Append(backups,
                    [id |-> nextId,
                     meta |-> [app |-> appName, version |-> 1, createdAt |-> now,
                               recordCount |-> Len(data)],
                     data |-> data])
    /\ nextId' = nextId + 1
    /\ snapshots' = loadLocalSnapshots(backups')
    /\ UNCHANGED <<file, exported, imported, quota>>
    /\ UNCHANGED <<serverVars, clientVars, eventVars, restVars>>

\* handleDelete(id): store.delete(id), and on complete loadLocalSnapshots
DeleteSnapshot(id) ==
    /\ \E i \in 1..Len(backups) : backups[i].id = id
    /\ backups' = SelectSeq(backups, LAMBDA b : b.id # id)
    /\ imported' = IF imported = id THEN 0 ELSE imported
    /\ snapshots' = loadLocalSnapshots(backups')
    /\ UNCHANGED <<nextId, file, exported, quota>>
    /\ UNCHANGED <<serverVars, clientVars, eventVars, restVars>>

\* exportJSON(snapshot): the download holds JSON.stringify(snapshot)
ExportJSON(i) ==
    /\ i \in 1..Len(backups)
    /\ file' = Stringify(backups[i])
    /\ exported' = backups[i]
    /\ imported' = 0
    /\ UNCHANGED <<backups, nextId, snapshots, quota>>
    /\ UNCHANGED <<serverVars, clientVars, eventVars, restVars>>

\* the user picks a file that was not exported from here
PickOtherFile(text) ==
    /\ file' = text
    /\ exported' = NoSnapshot
    /\ imported' = 0
    /\ UNCHANGED <<backups, nextId, snapshots, quota>>
    /\ UNCHANGED <<serverVars, clientVars, eventVars, restVars>>

\* handleImportJSON with the file chosen: reader.onload, then store.add and on
\* complete loadLocalSnapshots, or the alert
ImportJSON ==
    /\ file # NoFile
    /\ nextId <= quota + 1
    /\ IF Importable(file)
       THEN /\ backups' = Append(backups, ImportedSnapshot(file, nextId, now))
            /\ nextId' = nextId + 1
            /\ imported' = nextId
            /\ snapshots' = loadLocalSnapshots(backups')
       ELSE /\ imported' = -1
            /\ UNCHANGED <<backups, nextId, snapshots>>
    /\ UNCHANGED <<file, exported, quota>>
    /\ UNCHANGED <<serverVars, clientVars, eventVars, restVars>>

BackupNext ==
    \/ \E d \in SnapshotData : SaveSnapshot(d)
    \/ \E id \in 1..(MaxSnapshots + 1) : DeleteSnapshot(id)
    \/ \E i \in 1..MaxSnapshots : ExportJSON(i)
    \/ \E f \in {NotJson, NoDataFile} : PickOtherFile(f)
    \/ ImportJSON

\* the page mounted on an empty store that has room for q snapshots
BackupStart(q) ==
    /\ backups = <<>>
    /\ nextId = 1
    /\ file = NoFile
    /\ exported = NoSnapshot
    /\ imported = 0
    /\ snapshots = <<>>
    /\ quota = q

BackupInit == BackupStart(MaxSnapshots)

---------------------------------------------------------------------------
(* persistence: saveLatestSnapshot and loadLatestSnapshotPayload *)

\* the payloads a caller hands over, {meta, data}, made at some clock value
Payloads ==
    {[meta |-> [app |-> "nilakkal-police", version |-> 1, createdAt |-> t,
                recordCount |-> Len(d)],
      data |-> d] : t \in 1..MaxTime, d \in SeqsUpTo(SnapshotRecords, 1)}

\* `snap-${Date.now()}`
SnapKey(t) == <<"snap-", t>>
LatestKey == <<"latest">>

\* {id: key, ...payload}
WithId(key, payload) ==
    [id |-> key, meta |-> payload.meta, data |-> payload.data]

\* store.put(obj) on a store with keyPath "id": obj replaces what the key held
Put(store, obj) ==
    {o \in store : o.id # obj.id} \cup {obj}

\* a load that hands back the stored object as it is
KeepId(obj) ==
    obj

\* const {id, ...payload} = result
StripId(obj) ==
    [k \in DOMAIN obj \ {"id"} |-> obj[k]]

\* resolve(null)
NullPayload == <<>>

NotLoaded == [done |-> FALSE, payload |-> NullPayload]

\* saveLatestSnapshot(payload), its transaction completed: both puts are in
SaveLatestSnapshot(payload) ==
    /\ Len(saves) < MaxSaves
    /\ payload.meta.createdAt <= now
    /\ snapStore' = Put(Put(snapStore, WithId(LatestKey, payload)),
                        WithId(SnapKey(now), payload))
    /\ saves' = Append(saves, [key |-> SnapKey(now), payload |-> payload])
    /\ UNCHANGED <<loaded, serverVars, clientVars, eventVars, backupVars>>
    /\ UNCHANGED <<recoveryVars, formVars, timerVars, pageVars>>

\* loadLatestSnapshotPayload(): store.get("latest")
LoadLatestSnapshotPayload ==
    /\ LET hits == {o \in snapStore : o.id = LatestKey}
       IN loaded' = [done |-> TRUE,
                     payload |-> IF hits = {} THEN NullPayload
                                 ELSE StripId(CHOOSE o \in hits : TRUE)]
    /\ UNCHANGED <<snapStore, saves, serverVars, clientVars, eventVars, backupVars>>
    /\ UNCHANGED <<recoveryVars, formVars, timerVars, pageVars>>

LatestInit ==
    /\ snapStore = {}
    /\ saves = <<>>
    /\ loaded = NotLoaded

---------------------------------------------------------------------------
(* Quick Recovery: PoliceBackup.handleQuickRecovery with part_006's getRecords, and
   handleQuickRecovery of pages/Backup.tsx *)

\* rows of GET /api/reports?report_date=today
ReportRows ==
    [vehicle : RestorePlates, zone : {ZName(1)}, entryTime : {TimeIn},
     status : {"INSIDE", "EXITED"}, type : {"LIGHT"}]

\* what apiGet gives: it throws, or it resolves with something that is no array,
\* or with the rows
ReportAnswers ==
    {[kind |-> "error", rows |-> <<>>], [kind |-> "noArray", rows |-> <<>>]}
    \cup {[kind |-> "rows", rows |-> rows] : rows \in SeqsUpTo(ReportRows, MaxRecords)}

\* r.type.toLowerCase() on the class names the report carries
ToLowerCase(type) ==
    CASE type = "LIGHT" -> "light"
      [] type = "MEDIUM" -> "medium"
      [] type = "HEAVY" -> "heavy"
      [] OTHER -> type

\* rows.filter(r => r.status === "INSIDE").map(r => ({plate, zone, timeIn,
\* timeOut: null, type}))
RecordsOfRows(rows) ==
    LET inside == SelectSeq(rows, LAMBDA r : r.status = "INSIDE")
    IN [i \in 1..Len(inside) |->
          [plate |-> inside[i].vehicle, zone |-> inside[i].zone,
           timeIn |-> inside[i].entryTime, timeOut |-> Null,
           type |-> ToLowerCase(inside[i].type)]]

\* part_006 getRecords: [] when the fetch throws or the answer is no array
getRecords(answer) ==
    IF answer.kind = "rows" THEN RecordsOfRows(answer.rows) ELSE <<>>

RecoveryPages == {"PoliceBackup", "Backup"}

NoAnswer == [kind |-> "none", rows |-> <<>>]

\* running: Quick Recovery instances whose fetch has not settled; saving: Manual
\* Log instances awaiting their network call; writing: Manual Log instances whose
\* store.add request has not settled
Idle == [page |-> "none", isProcessing |-> FALSE, answer |-> NoAnswer,
         reported |-> "none", restored |-> FALSE,
         running |-> 0, saving |-> 0, writing |-> 0]

\* whether a click on a control of the page is followed: the buttons of PoliceBackup
\* carry disabled={isProcessing}, the cards of pages/Backup.tsx carry only onClick
Clickable(page) ==
    /\ recovery.page \in {"none", page}
    /\ page = "PoliceBackup" => ~recovery.isProcessing

\* the click on Quick Recovery, confirmed: setIsProcessing(true), the fetch is sent
QuickRecoveryStart(page) ==
    /\ Clickable(page)
    /\ recovery.running < MaxRunning
    /\ recovery' = [recovery EXCEPT !.page = page, !.isProcessing = TRUE,
                                    !.answer = NoAnswer, !.reported = "none",
                                    !.restored = FALSE, !.running = @ + 1]
    /\ UNCHANGED <<serverVars, clientVars, eventVars, backupVars, latestVars>>
    /\ UNCHANGED <<formVars, timerVars, pageVars>>

\* the rest of handleQuickRecovery once the fetch has settled, finally included
QuickRecoveryAnswer(answer) ==
    /\ recovery.running > 0
    /\ LET recs == getRecords(answer)
           fails == IF recovery.page = "PoliceBackup"
                    THEN recs = <<>>
                    ELSE answer.kind # "rows"
       IN /\ recovery' = [recovery EXCEPT !.isProcessing = FALSE,
                                          !.running = @ - 1,
                                          !.answer = answer,
                                          !.reported = IF fails THEN "failure"
                                                       ELSE "success",
                                          !.restored = ~fails]
          /\ IF fails
             THEN UNCHANGED <<zones, restoreLog, refreshDue>>
             ELSE RestoreWith(recs)
    /\ UNCHANGED <<rev, records, serverVars, eventVars, backupVars, latestVars>>
    /\ UNCHANGED <<formVars, timerVars, pageVars>>

\* the click on Manual Log (PoliceBackup.handleSaveSnapshot) or on the Manual
\* Snapshot card (handleManualSnapshot of pages/Backup.tsx): setIsProcessing(true),
\* the network call is sent
ManualLogStart(page) ==
    /\ Clickable(page)
    /\ recovery.saving + recovery.writing < MaxRunning
    /\ recovery' = [recovery EXCEPT !.page = page, !.isProcessing = TRUE,
                                    !.saving = @ + 1]
    /\ UNCHANGED <<serverVars, clientVars, eventVars, backupVars, latestVars>>
    /\ UNCHANGED <<formVars, timerVars, pageVars>>

\* the network call of a Manual Log has settled. PoliceBackup: store.add(snapshot)
\* is requested and the finally block runs before the request settles; Backup page:
\* the snapshot lives on the server, the finally block ends the handler
ManualLogFetched ==
    /\ recovery.saving > 0
    /\ recovery' = [recovery EXCEPT !.isProcessing = FALSE,
                                    !.saving = @ - 1,
                                    !.writing = IF recovery.page = "PoliceBackup"
                                                THEN @ + 1 ELSE @]
    /\ UNCHANGED <<serverVars, clientVars, eventVars, backupVars, latestVars>>
    /\ UNCHANGED <<formVars, timerVars, pageVars>>

\* the store.add request of a Manual Log settles. request.onsuccess: the snapshot
\* (getRecords gave data) is in the store and loadLocalSnapshots has read the list
\* again; the store has no room: the request fails and no handler is set for that
ManualLogWritten(data) ==
    /\ recovery.writing > 0
    /\ recovery' = [recovery EXCEPT !.writing = @ - 1]
    /\ IF Len(backups) < quota
       THEN /\ backups' = Append(backups,
                             [id |-> nextId,
                              meta |-> [app |-> appName, version |-> 1,
                                        createdAt |-> now,
                                        recordCount |-> Len(data)],
                              data |-> data])
            /\ nextId' = nextId + 1
            /\ snapshots' = loadLocalSnapshots(backups')
       ELSE UNCHANGED <<backups, nextId, snapshots>>
    /\ UNCHANGED <<file, exported, imported, quota>>
    /\ UNCHANGED <<serverVars, clientVars, eventVars, latestVars>>
    /\ UNCHANGED <<formVars, timerVars, pageVars>>

RecoveryInit ==
    recovery = Idle

---------------------------------------------------------------------------
(* Admin page: the zone create / edit form *)

\* useState of formData, and what handleCreate resets it to
BlankForm ==
    [name |-> <<>>, capacity |-> 50,
     limits |-> [heavy |-> 10, medium |-> 15, light |-> 25]]

\* `TERM_${(zones.length + 1).toString().padStart(3, '0')}`
TermName(n) == <<"TERM_", "0", "0", Digit[n]>>

\* what the name input may be changed to: blanks only
TypedNames == {<<" ">>}

\* String.prototype.trim on these names
Trim(name) ==
    SelectSeq(name, LAMBDA piece : piece # " ")

\* parseInt(e.target.value) || 0 of what is typed into a limit input
TypedLimits == {-1, 1}

\* zone.limits || {20% and 30% of the capacity floored, the rest}
LimitsOrDefault(zone) ==
    IF zone.limits = NullStats
    THEN [heavy |-> (zone.capacity * 2) \div 10,
          medium |-> (zone.capacity * 3) \div 10,
          light |-> zone.capacity - (zone.capacity * 2) \div 10
                                  - (zone.capacity * 3) \div 10]
    ELSE zone.limits

\* a zone POST /api/zones accepts although its limits do not add up to its capacity
ZoneWide == [name |-> ZName(2), capacity |-> 3,
             limits |-> [heavy |-> 1, medium |-> 0, light |-> 1]]

NoDialog == [isEditOpen |-> FALSE, isCreateOpen |-> FALSE, editingZone |-> Omitted]
NoSubmit == [name |-> <<>>, capacity |-> -1, limits |-> NullStats]

\* openCreateDialog
OpenCreateDialog ==
    /\ formData' = [BlankForm EXCEPT !.name = TermName(Len(srvZones) + 1)]
    /\ dialog' = [dialog EXCEPT !.isCreateOpen = TRUE]
    /\ UNCHANGED <<submitted, serverVars, clientVars, eventVars, backupVars>>
    /\ UNCHANGED <<latestVars, recoveryVars, timerVars, pageVars>>

\* handleEditClick(zone) on a zone of the list the page fetched
HandleEditClick(i) ==
    /\ i \in 1..Len(srvZones)
    /\ formData' = [name |-> srvZones[i].name, capacity |-> srvZones[i].capacity,
                    limits |-> LimitsOrDefault(srvZones[i])]
    /\ dialog' = [dialog EXCEPT !.isEditOpen = TRUE, !.editingZone = srvZones[i].id]
    /\ UNCHANGED <<submitted, serverVars, clientVars, eventVars, backupVars>>
    /\ UNCHANGED <<latestVars, recoveryVars, timerVars, pageVars>>

\* the name input's onChange
TypeName(name) ==
    /\ dialog.isEditOpen \/ dialog.isCreateOpen
    /\ formData' = [formData EXCEPT !.name = name]
    /\ UNCHANGED <<dialog, submitted, serverVars, clientVars, eventVars, backupVars>>
    /\ UNCHANGED <<latestVars, recoveryVars, timerVars, pageVars>>

\* the formData updateLimit(type, value) sets: the limit is Math.max(0, value),
\* the capacity is the sum of the three limits
WithLimit(form, type, value) ==
    LET updatedLimits == [form.limits EXCEPT ![type] = IF value < 0 THEN 0 ELSE value]
    IN [form EXCEPT !.limits = updatedLimits, !.capacity = SumStats(updatedLimits)]

\* updateLimit(type, value), from a limit input's onChange
UpdateLimit(type, value) ==
    /\ dialog.isEditOpen \/ dialog.isCreateOpen
    /\ formData' = WithLimit(formData, type, value)
    /\ UNCHANGED <<dialog, submitted, serverVars, clientVars, eventVars, backupVars>>
    /\ UNCHANGED <<latestVars, recoveryVars, timerVars, pageVars>>

\* Abort_Task
AbortTask ==
    /\ dialog.isEditOpen \/ dialog.isCreateOpen
    /\ dialog' = [dialog EXCEPT !.isEditOpen = FALSE, !.isCreateOpen = FALSE]
    /\ UNCHANGED <<formData, submitted, serverVars, clientVars, eventVars, backupVars>>
    /\ UNCHANGED <<latestVars, recoveryVars, timerVars, pageVars>>

\* handleCreate, the dialog's button while isEditOpen is false: the alert on a blank
\* name; else addZone(formData), which posts to /api/zones and refreshes, then the
\* dialog closes and the form is reset; or the alert when the request failed
HandleCreate(ok) ==
    /\ dialog.isCreateOpen /\ ~dialog.isEditOpen
    /\ Len(srvZones) < MaxZones
    /\ IF Trim(formData.name) = <<>>
       THEN UNCHANGED <<formData, dialog, submitted, srvZones, zones, restoreLog,
                        refreshDue>>
       ELSE /\ submitted' = formData
            /\ IF ok
               THEN /\ srvZones' = createZone(srvZones, formData)
                    /\ zones' = Normalize(srvZones')
                    /\ restoreLog' = NoRestore
                    /\ refreshDue' = FALSE
                    /\ dialog' = [dialog EXCEPT !.isCreateOpen = FALSE]
                    /\ formData' = BlankForm
               ELSE UNCHANGED <<formData, dialog, srvZones, zones, restoreLog,
                                refreshDue>>
    /\ UNCHANGED <<entries, lastEntry, rev, records, eventVars, backupVars>>
    /\ UNCHANGED <<latestVars, recoveryVars, timerVars, pageVars>>

\* handleSaveEdit, the dialog's button while isEditOpen is true: updateZone(id,
\* formData) puts {name, limits} to /api/zones/:id and refreshes, then the dialog
\* closes; or the alert when the request failed. What the PUT does to the zone is
\* the backend's business: no handler for it is in this source tree.
HandleSaveEdit(ok) ==
    /\ dialog.isEditOpen
    /\ dialog.editingZone # Omitted
    /\ submitted' = formData
    /\ IF ok
       THEN /\ zones' = Normalize(srvZones)
            /\ restoreLog' = NoRestore
            /\ refreshDue' = FALSE
            /\ dialog' = [dialog EXCEPT !.isEditOpen = FALSE, !.editingZone = Omitted]
       ELSE UNCHANGED <<dialog, zones, restoreLog, refreshDue>>
    /\ UNCHANGED <<formData, serverVars, rev, records, eventVars, backupVars>>
    /\ UNCHANGED <<latestVars, recoveryVars, timerVars, pageVars>>

FormInit ==
    /\ formData = BlankForm
    /\ dialog = NoDialog
    /\ submitted = NoSubmit

---------------------------------------------------------------------------
(* ParkingProvider: the auto-save interval *)

\* Date.prototype.toISOString of new Date(rec.timeIn): milliseconds are written
ToISOString(date) ==
    IF date = TimeIn THEN "2025-01-01T10:00:00.000Z" ELSE date

\* currentZones.flatMap(z => z.vehicles.map(v => ({plate, zone: z.name, timeIn,
\* timeOut: null, type})))
RECURSIVE RecordsOfZones(_)
RecordsOfZones(zs) ==
    IF zs = <<>> THEN <<>>
    ELSE [k \in 1..Len(zs[1].vehicles) |->
            [plate |-> zs[1].vehicles[k].number, zone |-> zs[1].name,
             timeIn |-> ToISOString(zs[1].vehicles[k].entryTime), timeOut |-> Null,
             type |-> zs[1].vehicles[k].type]]
         \o RecordsOfZones(Tail(zs))

\* makeSnapshotFromState(currentZones) at clock value t
makeSnapshotFromState(currentZones, t) ==
    LET recs == RecordsOfZones(currentZones)
    IN [meta |-> [app |-> "nilakkal-police", version |-> 1, createdAt |-> t,
                  recordCount |-> Len(recs)],
        data |-> recs]

\* restoreData handed the data of the snapshot makeSnapshotFromState builds from
\* the zones state at hand
SnapshotThenRestore ==
    /\ LET data == makeSnapshotFromState(zones, now).data
       IN records' = data /\ RestoreWith(data)
    /\ UNCHANGED <<rev, serverVars, eventVars, backupVars, restVars>>

\* totalOccupied = zones.reduce((acc, z) => acc + z.occupied, 0)
RECURSIVE totalOccupied(_)
totalOccupied(zs) ==
    IF zs = <<>> THEN 0 ELSE zs[1].occupied + totalOccupied(Tail(zs))

\* the completed saves remembered, the oldest dropped when the list is full
Remember(log, save) ==
    IF Len(log) < MaxSaves THEN Append(log, save) ELSE Append(Tail(log), save)

\* an interval that is rearmed only by a save that went through
ArmedWhileSaving(ok) ==
    ok

\* setInterval: the callback keeps being called every 3 minutes, whatever the
\* promise of the save did
StillArmed(ok) ==
    TRUE

Mounted == [armed |-> TRUE, phase |-> 0, last |-> "none", prev |-> "none",
            logged |-> FALSE]

\* one firing of the interval: makeSnapshotFromState(zonesRef.current), then
\* saveLatestSnapshot(payload), whose transaction completes (ok) or fails and is
\* caught by console.error("Auto-save failed", e)
AutoSaveTick(ok) ==
    /\ timer.armed
    /\ LET payload == makeSnapshotFromState(zones, now)
       IN IF ok
          THEN /\ snapStore' = Put(Put(snapStore, WithId(LatestKey, payload)),
                                   WithId(SnapKey(now), payload))
               /\ saves' = Remember(saves, [key |-> SnapKey(now),
                                            payload |-> payload])
          ELSE UNCHANGED <<snapStore, saves>>
    /\ timer' = [armed |-> StillArmed(ok), phase |-> 1 - timer.phase,
                 last |-> IF ok THEN "saved" ELSE "failed", prev |-> timer.last,
                 logged |-> ~ok]
    /\ UNCHANGED <<loaded, serverVars, clientVars, eventVars, backupVars>>
    /\ UNCHANGED <<recoveryVars, formVars, pageVars>>

\* the provider unmounts: clearInterval(interval)
Unmount ==
    /\ timer.armed
    /\ timer' = [timer EXCEPT !.armed = FALSE]
    /\ UNCHANGED <<serverVars, clientVars, eventVars, backupVars>>
    /\ UNCHANGED <<latestVars, recoveryVars, formVars, pageVars>>

TimerInit ==
    timer = Mounted

---------------------------------------------------------------------------
(* Polling pages: fetchZones and the 5 s interval of Home.tsx and Admin.tsx *)

\* a fetch that holds its first answer for good
KeepFirst(current, data) ==
    IF current = <<>> THEN data ELSE current

\* .then((data) => setZones(data))
SetPolled(current, data) ==
    data

\* a fetch on its way: the request, and once GET /api/zones has served it the
\* response; version: how many /api/enter requests the server had taken when it
\* read the zones for this response
Request == [served |-> FALSE, data |-> <<>>, version |-> 0]

\* useState<Zone[]>([]) and the effect that has just run: nothing fetched yet
\* (version: the version of the response the zones state was last set from)
PageMounted == [mounted |-> TRUE, shown |-> <<>>, flight |-> <<>>, version |-> 0]

\* the sequence without its i-th element
Without(seq, i) ==
    [k \in 1..(Len(seq) - 1) |-> IF k < i THEN seq[k] ELSE seq[k + 1]]

\* fetchZones(): apiGet("/api/zones") goes out, from the effect on mount, from the
\* interval, or from a handler of the page
PollSend ==
    /\ poll.mounted
    /\ Len(poll.flight) < MaxInFlight
    /\ poll' = [poll EXCEPT !.flight = Append(@, Request)]
    /\ UNCHANGED <<serverVars, clientVars, eventVars, backupVars>>
    /\ UNCHANGED <<latestVars, recoveryVars, formVars, timerVars>>

\* GET /api/zones serves a request: res.json(await storage.getZones())
PollServe(i) ==
    /\ i \in 1..Len(poll.flight)
    /\ ~poll.flight[i].served
    /\ poll' = [poll EXCEPT !.flight[i] = [@ EXCEPT !.served = TRUE,
                                                     !.data = srvZones,
                                                     !.version = entries]]
    /\ UNCHANGED <<serverVars, clientVars, eventVars, backupVars>>
    /\ UNCHANGED <<latestVars, recoveryVars, formVars, timerVars>>

\* a response arrives, in whatever order the network brings them, and the .then
\* callback runs: setZones(data). After the unmount the callback is skipped
\* (isMounted) or its setZones is a state update React drops
PollDeliver(i) ==
    /\ i \in 1..Len(poll.flight)
    /\ poll.flight[i].served
    /\ poll' = [poll EXCEPT
                  !.flight = Without(@, i),
                  !.shown = IF poll.mounted
                            THEN SetPolled(@, poll.flight[i].data) ELSE @,
                  !.version = IF poll.mounted THEN poll.flight[i].version ELSE @]
    /\ UNCHANGED <<serverVars, clientVars, eventVars, backupVars>>
    /\ UNCHANGED <<latestVars, recoveryVars, formVars, timerVars>>

\* the effect's cleanup: isMounted = false, clearInterval(interval)
PollUnmount ==
    /\ poll.mounted
    /\ poll' = [poll EXCEPT !.mounted = FALSE]
    /\ UNCHANGED <<serverVars, clientVars, eventVars, backupVars>>
    /\ UNCHANGED <<latestVars, recoveryVars, formVars, timerVars>>

PollInit ==
    poll = PageMounted

---------------------------------------------------------------------------
(* Specifications *)

RestInit == LatestInit /\ RecoveryInit /\ FormInit /\ TimerInit /\ PollInit

\* the server zone store under zone administration and vehicle entries
SpecEntryInit == ServerInit /\ ClientInitIdle /\ EventInit /\ BackupInit /\ RestInit
SpecEntryNext == ServerNext
SpecEntry == SpecEntryInit /\ [][SpecEntryNext]_vars

\* the provider: a record list restored by one of the three revisions of restoreData,
\* over whatever the server answered to refreshData before
SpecRestoreInit ==
    /\ srvZones = TwoZonesBusy /\ entries = 0 /\ lastEntry = NoEntry
    /\ ClientInit /\ EventInit /\ BackupInit /\ RestInit
SpecRestoreNext == ClientNext
SpecRestore == SpecRestoreInit /\ [][SpecRestoreNext]_vars

\* the mounted provider and the Home page against a server that holds two zones
SpecProviderInit ==
    /\ srvZones = TwoZonesBusy /\ entries = 0 /\ lastEntry = NoEntry
    /\ ClientInitIdle /\ EventInit /\ BackupInit /\ RestInit
SpecProviderNext ==
    \/ RefreshData
    \/ \E z \in EnterZones, t \in EnterTypes : EnterVehicle(z, t)
    \/ \E z \in EnterZones, t \in EnterTypes : Enter(z, t)
    \/ \E n \in 1..MaxZones, data \in UpdateBodies : UpdateZone(ZId(n), data)
SpecProvider == SpecProviderInit /\ [][SpecProviderNext]_vars

\* the event log
SpecEventsInit == ServerInit /\ ClientInitIdle /\ EventInit /\ BackupInit /\ RestInit
SpecEventsNext == EventNext
SpecEvents == SpecEventsInit /\ [][SpecEventsNext]_vars

\* the snapshot store
SpecBackupInit == ServerInit /\ ClientInitIdle /\ EventInit /\ BackupInit /\ RestInit
SpecBackupNext ==
    \/ BackupNext
    \/ Tick
SpecBackup == SpecBackupInit /\ [][SpecBackupNext]_vars

\* the snapshot list of the PoliceBackup page under saves, imports and deletes
SpecSnapshotsInit ==
    ServerInit /\ ClientInitIdle /\ EventInit /\ BackupStart(MaxListed) /\ RestInit
SpecSnapshotsNext ==
    \/ \E d \in SeqsUpTo(SnapshotRecords, 0) : SaveSnapshot(d)
    \/ \E id \in 1..(MaxListed + 1) : DeleteSnapshot(id)
    \/ \E f \in {BadDateFile} : PickOtherFile(f)
    \/ ImportJSON
    \/ Tick
SpecSnapshots == SpecSnapshotsInit /\ [][SpecSnapshotsNext]_vars

\* the Restore button on a stored snapshot, whose data an import may have brought
SnapshotLists ==
    SeqsUpTo({NullRecord}
             \cup {r \in VehicleRecords : r.zone = ZName(1) /\ r.type = "light"},
             MaxRecords)
SpecSnapshotRestoreInit ==
    /\ srvZones = TwoZonesBusy /\ entries = 0 /\ lastEntry = NoEntry
    /\ rev \in Revs /\ records = <<>> /\ zones = <<>>
    /\ restoreLog = NoRestore /\ refreshDue = FALSE
    /\ EventInit /\ BackupInit /\ RestInit
SpecSnapshotRestoreNext ==
    \/ RefreshData
    \/ \E data \in SnapshotLists : RestoreSnapshot(data)
SpecSnapshotRestore == SpecSnapshotRestoreInit /\ [][SpecSnapshotRestoreNext]_vars

\* a polling page next to a server that takes vehicle entries; every response
\* arrives in the end and the interval keeps firing while the page is mounted
SpecPollInit ==
    /\ srvZones = TwoZonesBusy /\ entries = 0 /\ lastEntry = NoEntry
    /\ ClientInitIdle /\ EventInit /\ BackupInit /\ RestInit
SpecPollNext ==
    \/ \E z \in {ZId(1), ZId(2)}, t \in {"light"} : Enter(z, t)
    \/ PollSend
    \/ \E i \in 1..MaxInFlight : PollServe(i)
    \/ \E i \in 1..MaxInFlight : PollDeliver(i)
    \/ PollUnmount
SpecPoll ==
    /\ SpecPollInit /\ [][SpecPollNext]_vars
    /\ WF_vars(PollSend)
    /\ \A i \in 1..MaxInFlight : WF_vars(PollServe(i)) /\ WF_vars(PollDeliver(i))

\* zone edits sent to the server between vehicle entries
SpecZoneEditInit ==
    /\ srvZones = createZone(createZone(<<>>, ZoneA), ZoneB)
    /\ entries = 0 /\ lastEntry = NoEntry
    /\ ClientInitIdle /\ EventInit /\ BackupInit /\ RestInit
SpecZoneEditNext ==
    \/ \E n \in 1..MaxZones, data \in EditBodies : UpdateZone(ZId(n), data)
    \/ \E z \in {ZId(1)}, t \in {"light"} : Enter(z, t)
SpecZoneEdit == SpecZoneEditInit /\ [][SpecZoneEditNext]_vars

\* what MemStorage holds after an admin has created two zones under one name
OneNameTwice ==
    createZone(createZone(<<>>, ZoneB), ZoneB)

\* open records that name the second zone by its id
OpenLists ==
    SeqsUpTo({r \in VehicleRecords : /\ r.zone = ZId(2)
                                     /\ r.type \in {"heavy", "light"}
                                     /\ r.timeOut = Null},
             MaxRecords)

\* a snapshot of the zones state restored, in each revision of the provider
SpecRoundTripInit ==
    /\ srvZones \in {TwoZonesBusy, OneNameTwice} /\ entries = 0 /\ lastEntry = NoEntry
    /\ rev \in Revs /\ records = <<>> /\ zones = <<>>
    /\ restoreLog = NoRestore /\ refreshDue = FALSE
    /\ EventInit /\ BackupInit /\ RestInit
SpecRoundTripNext ==
    \/ RefreshData
    \/ \E data \in OpenLists : RestoreSnapshot(data)
    \/ SnapshotThenRestore
SpecRoundTrip == SpecRoundTripInit /\ [][SpecRoundTripNext]_vars

\* Quick Recovery on either page, over what the provider fetched before
SpecRecoveryInit ==
    /\ srvZones = TwoZonesBusy /\ entries = 0 /\ lastEntry = NoEntry
    /\ rev \in Revs /\ records = <<>> /\ zones = <<>>
    /\ restoreLog = NoRestore /\ refreshDue = FALSE
    /\ EventInit /\ BackupInit /\ RestInit
SpecRecoveryNext ==
    \/ RefreshData
    \/ \E page \in RecoveryPages : QuickRecoveryStart(page)
    \/ \E answer \in ReportAnswers : QuickRecoveryAnswer(answer)
    \/ \E page \in RecoveryPages : ManualLogStart(page)
    \/ ManualLogFetched
    \/ \E data \in SeqsUpTo(SnapshotRecords, 0) : ManualLogWritten(data)
SpecRecovery == SpecRecoveryInit /\ [][SpecRecoveryNext]_vars

\* the Admin page's zone form, over a server that holds one zone whose limits do
\* not add up to its capacity
SpecFormInit ==
    /\ srvZones = createZone(<<>>, ZoneWide) /\ entries = 0 /\ lastEntry = NoEntry
    /\ ClientInitIdle /\ EventInit /\ BackupInit /\ RestInit
SpecFormNext ==
    \/ OpenCreateDialog
    \/ \E i \in 1..MaxZones : HandleEditClick(i)
    \/ \E name \in TypedNames : TypeName(name)
    \/ \E type \in {"heavy", "light"}, value \in TypedLimits : UpdateLimit(type, value)
    \/ AbortTask
    \/ \E ok \in BOOLEAN : HandleCreate(ok)
    \/ \E ok \in BOOLEAN : HandleSaveEdit(ok)
SpecForm == SpecFormInit /\ [][SpecFormNext]_vars

\* the latest-snapshot store under saves and loads while the clock runs
SpecLatestInit ==
    ServerInit /\ ClientInitIdle /\ EventInit /\ BackupInit /\ RestInit
SpecLatestNext ==
    \/ \E payload \in Payloads : SaveLatestSnapshot(payload)
    \/ LoadLatestSnapshotPayload
    \/ Tick
SpecLatest == SpecLatestInit /\ [][SpecLatestNext]_vars

\* the mounted provider with its auto-save interval: the interval's callback is
\* called again and again for as long as the interval is not cleared
ParkedLists ==
    {<<r>> : r \in {v \in VehicleRecords :
                      v.zone = ZName(1) /\ v.type = "light" /\ v.timeOut = Null}}
SpecAutoSaveInit ==
    /\ srvZones = TwoZonesBusy /\ entries = 0 /\ lastEntry = NoEntry
    /\ ClientInitIdle /\ EventInit /\ BackupInit /\ RestInit
SpecAutoSaveNext ==
    \/ \E ok \in BOOLEAN : AutoSaveTick(ok)
    \/ Unmount
    \/ RefreshData
    \/ \E data \in ParkedLists : RestoreSnapshot(data)
    \/ Tick
SpecAutoSave ==
    /\ SpecAutoSaveInit
    /\ [][SpecAutoSaveNext]_vars
    /\ WF_vars(\E ok \in BOOLEAN : AutoSaveTick(ok))

Spec == SpecEntry

---------------------------------------------------------------------------
(* Claims about vehicle entry (checked under SpecEntry) *)

\* C1: in every reachable state, every zone has
\* occupied = stats.heavy + stats.medium + stats.light, on the server after any
\* vehicle entry (whatever type value the request carries) and in the provider after
\* any restoreData call.
C1_OccupiedIsSumOfStats ==
    /\ \A i \in 1..Len(srvZones) : srvZones[i].occupied = SumStats(srvZones[i].stats)
    /\ \A i \in 1..Len(zones) : zones[i].occupied = SumStats(zones[i].stats)

\* C2: a successful entry of a vehicle of class T leaves the zone it went to with
\* stats[T] <= limits[T] and occupied <= capacity, and an entry of class T naming a
\* zone that already holds limits[T] vehicles of that class leaves that zone's
\* stats[T] where it was.
C2_EntryWithinLimits ==
    [][(entries' # entries /\ lastEntry'.type \in VehicleTypes) =>
         LET T == lastEntry'.type
         IN \A i \in 1..Len(srvZones) :
              /\ (lastEntry'.status = "ok" /\ srvZones'[i] # srvZones[i]) =>
                   /\ srvZones'[i].stats[T] <= srvZones'[i].limits[T]
                   /\ srvZones'[i].occupied <= srvZones'[i].capacity
              /\ (srvZones[i].id = lastEntry'.zone
                    /\ srvZones[i].stats[T] = srvZones[i].limits[T]) =>
                   srvZones'[i].stats[T] = srvZones[i].stats[T]]_vars

\* C10: an entry that names no zone goes to the first zone with occupied < capacity;
\* an entry that names a full zone goes to the first zone with occupied < capacity
\* instead; and an entry that names no zone or an existing zone fails only when no
\* zone has occupied < capacity.
C10_ZoneSelection ==
    [][entries' # entries =>
         LET named == FindIndex({i \in 1..Len(srvZones) :
                                   srvZones[i].id = lastEntry'.zone})
             free == FindIndex({i \in 1..Len(srvZones) :
                                  srvZones[i].occupied < srvZones[i].capacity})
             goesTo(k) ==
                 /\ lastEntry'.status = "ok"
                 /\ \A i \in 1..Len(srvZones) :
                      srvZones'[i].occupied = srvZones[i].occupied + (IF i = k THEN 1 ELSE 0)
         IN /\ (lastEntry'.zone = Omitted /\ free # 0) => goesTo(free)
            /\ (named # 0 /\ srvZones[named].occupied >= srvZones[named].capacity
                  /\ free # 0) => goesTo(free)
            /\ (lastEntry'.status = "fail" /\ (lastEntry'.zone = Omitted \/ named # 0)) =>
                 free = 0]_vars

\* (checked under SpecProvider)
\* C11: a failed vehicle entry mutates nothing: when /api/enter answers
\* success:false the server's zones are what they were before the request, and
\* enterVehicle does not return success and leaves the provider's zones as they were.
C11_FailedEntryMutatesNothing ==
    [][(entries' # entries /\ lastEntry'.status = "fail") =>
         /\ srvZones' = srvZones
         /\ zones' = zones
         /\ lastEntry'.returned # "success"]_vars

\* C17: a zone that holds vehicles cannot be deleted: whatever request is served,
\* a zone with occupied > 0 is still in the store afterwards.
C17_OccupiedZoneStays ==
    [][\A i \in 1..Len(srvZones) :
         srvZones[i].occupied > 0 =>
         \E j \in 1..Len(srvZones') : srvZones'[j].id = srvZones[i].id]_vars

---------------------------------------------------------------------------
(* Claims about restoreData (checked under SpecRestore) *)

\* C3: when every record names an existing zone by id or name, carries one of the
\* three classes, and the open records fit the capacity and the class limits of their
\* zones, then after restoreData each zone's occupied is the number of open records
\* (timeOut null) that name it.
C3_OccupiedIsOpenCount ==
    LET names(i, k) == zones[k].id = records[i].zone \/ zones[k].name = records[i].zone
        open(k) == {i \in 1..Len(records) : records[i].timeOut = Null /\ names(i, k)}
        openOf(k, t) == {i \in open(k) : records[i].type = t}
        wellFormed ==
            /\ \A i \in 1..Len(records) :
                 /\ records[i].type \in VehicleTypes
                 /\ \E k \in 1..Len(zones) : names(i, k)
            /\ \A k \in 1..Len(zones) :
                 /\ Cardinality(open(k)) <= zones[k].capacity
                 /\ \A t \in VehicleTypes : Cardinality(openOf(k, t)) <= zones[k].limits[t]
    IN (restoreLog.state # "none" /\ wellFormed) =>
         \A k \in 1..Len(zones) : zones[k].occupied = Cardinality(open(k))

\* C4: restoreData never counts a record whose timeOut is set: such a record is
\* pushed to no zone, so the vehicles held after the call are at most the open
\* records of the list.
C4_ClosedRecordsNotCounted ==
    LET closed == {i \in 1..Len(records) : records[i].timeOut # Null}
        held == {<<k, n>> \in (1..Len(zones)) \X (1..MaxRecords + 1) :
                   n <= Len(zones[k].vehicles)}
    IN restoreLog.state = "set" =>
         /\ \A i \in closed : restoreLog.log[i].placed = 0
         /\ Cardinality(held) <= Len(records) - Cardinality(closed)

\* C5: restoreData is a full overwrite: a zone that no open record of the list was
\* resolved to or placed in has occupied 0, stats {0,0,0} and no vehicles after the
\* call, whatever it held before.
C5_FullOverwrite ==
    LET touched(k) ==
            \E i \in 1..Len(restoreLog.log) :
               /\ records[i].timeOut = Null
               /\ restoreLog.log[i].target = k \/ restoreLog.log[i].placed = k
    IN restoreLog.state # "none" =>
         \A k \in 1..Len(zones) :
            ~touched(k) =>
               /\ zones[k].occupied = 0
               /\ zones[k].stats = ZeroStats
               /\ zones[k].vehicles = <<>>

\* the records of the last call that reached the zone lookup and matched no zone
Unmatched ==
    {i \in 1..Len(restoreLog.log) :
        ~restoreLog.log[i].skipped /\ restoreLog.log[i].matched = 0}

C19_RestoredWithinLimits ==
    restoreLog.state = "set" =>
    \A i \in 1..Len(zones) :
       /\ zones[i].occupied <= zones[i].capacity
       /\ \A T \in VehicleTypes : zones[i].stats[T] <= zones[i].limits[T]

---------------------------------------------------------------------------
(* Claims about the event log (checked under SpecEvents) *)

\* the events of the log the last rebuild read that are latest for their plate:
\* no event of the same plate has a greater createdAt
Latest ==
    {i \in 1..Len(logAtRebuild) :
        \A j \in 1..Len(logAtRebuild) :
           logAtRebuild[j].record.plate = logAtRebuild[i].record.plate =>
              logAtRebuild[j].createdAt <= logAtRebuild[i].createdAt}

\* the result holds exactly one record per distinct plate of the log
OnePerPlate ==
    /\ \A k, l \in 1..Len(rebuilt) : rebuilt[k].plate = rebuilt[l].plate => k = l
    /\ {rebuilt[k].plate : k \in 1..Len(rebuilt)} =
         {logAtRebuild[i].record.plate : i \in 1..Len(logAtRebuild)}

\* C7 as stated: rebuildStateFromEvents returns one record per distinct plate, and
\* that record is the one carried by the event with the greatest createdAt for the
\* plate, whatever the order in which the events are stored.
C7_GreatestCreatedAtWins ==
    /\ OnePerPlate
    /\ \A i \in Latest : \E k \in 1..Len(rebuilt) : rebuilt[k] = logAtRebuild[i].record

\* C7 amended: rebuildStateFromEvents returns one record per distinct plate, and that
\* record is the one carried by the event with the greatest createdAt for the plate;
\* among several events of the plate with that same createdAt it is the record of
\* the one stored last.
C7_LastStoredAmongLatest ==
    /\ OnePerPlate
    /\ \A i \in Latest :
          (\A j \in Latest :
              logAtRebuild[j].record.plate = logAtRebuild[i].record.plate => j <= i) =>
             \E k \in 1..Len(rebuilt) : rebuilt[k] = logAtRebuild[i].record

\* C7 witness: a rebuild over a log that stores an event of a plate before an
\* earlier-dated event of the same plate carrying another record
C7_Witness ==
    /\ calls >= 1
    /\ \E i, j \in 1..Len(logAtRebuild) :
          /\ i < j
          /\ logAtRebuild[i].record.plate = logAtRebuild[j].record.plate
          /\ logAtRebuild[i].record # logAtRebuild[j].record
          /\ logAtRebuild[i].createdAt > logAtRebuild[j].createdAt

---------------------------------------------------------------------------
(* Claims about the snapshot store (checked under SpecBackup) *)

\* C9: importing the file that exportJSON wrote for a stored snapshot adds a stored
\* snapshot whose data equals the exported snapshot's data: the same records in the
\* same order.
C9_ExportImportRoundTrip ==
    (exported # NoSnapshot /\ imported # 0) =>
       /\ imported > 0
       /\ \E i \in 1..Len(backups) :
             backups[i].id = imported /\ backups[i].data = exported.data

\* C9 witness: the export of a snapshot of two different records has been imported
C9_Witness ==
    /\ exported # NoSnapshot
    /\ imported > 0
    /\ Len(exported.data) = 2
    /\ exported.data[1] # exported.data[2]

---------------------------------------------------------------------------
(* Claims about the latest-snapshot store (checked under SpecLatest) *)

\* C12: after any sequence of completed saveLatestSnapshot calls the key "latest"
\* holds the payload of the most recent save, and every save went under a
\* timestamp-derived key that differs from the keys of all earlier saves, two saves
\* at the same clock value included.
C12_LatestAndDistinctKeys ==
    /\ saves # <<>> =>
          WithId(LatestKey, saves[Len(saves)].payload) \in snapStore
    /\ \A i, j \in 1..Len(saves) : i < j => saves[i].key # saves[j].key

\* C13: loadLatestSnapshotPayload resolves with null when no save has completed,
\* and otherwise with exactly {meta, data} of the payload of the last save, the
\* internal id removed: save(p) then load gives p.
C13_LoadReturnsLastSave ==
    [][loaded' # loaded =>
         loaded'.payload = IF saves = <<>> THEN NullPayload
                           ELSE saves[Len(saves)].payload]_vars

\* C13 witness: a load after two saves of different payloads has resolved with the
\* second, and the store holds it under "latest" with its id
C13_Witness ==
    /\ Len(saves) = 2
    /\ saves[1].payload # saves[2].payload
    /\ loaded.done
    /\ loaded.payload = saves[2].payload
    /\ WithId(LatestKey, loaded.payload) \in snapStore
---------------------------------------------------------------------------
(* Claims about the snapshot list (checked under SpecSnapshots) *)

\* C14: after any sequence of save, import and delete the list on the page holds
\* exactly the snapshots that are in the store, and it is ordered by
\* meta.createdAt, latest first.
C14_ListIsStoreByCreatedAtDescending ==
    /\ Len(snapshots) = Len(backups)
    /\ {snapshots[i] : i \in 1..Len(snapshots)} = {backups[i] : i \in 1..Len(backups)}
    /\ \A i, j \in 1..Len(snapshots) :
          (/\ i < j
           /\ snapshots[i].meta.createdAt # NotADate
           /\ snapshots[j].meta.createdAt # NotADate) =>
          snapshots[i].meta.createdAt >= snapshots[j].meta.createdAt
---------------------------------------------------------------------------
(* Claims about Quick Recovery (checked under SpecRecovery) *)

\* the live data source gave an error, or nothing, or no row with status INSIDE
EmptyOrError(answer) ==
    answer.kind # "rows" \/ \A i \in 1..Len(answer.rows) : answer.rows[i].status # "INSIDE"

\* C15: a Quick Recovery whose fetch fails or brings an empty result (no row with
\* status INSIDE counts as empty) reports failure, does not call the restore,
\* leaves every zone's occupied, stats and vehicles as they were and ends with
\* isProcessing false.
C15_EmptyRecoveryChangesNothing ==
    [][(recovery'.running < recovery.running
          /\ EmptyOrError(recovery'.answer)) =>
         /\ recovery'.reported = "failure"
         /\ ~recovery'.restored
         /\ zones' = zones
         /\ ~recovery'.isProcessing]_vars

\* C21: while a Quick Recovery or a snapshot save is in flight, from the click until
\* its network call and its store write have settled, its control is disabled, so
\* no second instance of the same action starts and two instances never overlap.
C21_OneInstanceInFlight ==
    /\ recovery.running <= 1
    /\ recovery.saving + recovery.writing <= 1
    /\ recovery.running + recovery.saving + recovery.writing > 0 =>
         recovery.isProcessing
---------------------------------------------------------------------------
(* Claims about restoring a stored snapshot (checked under SpecSnapshotRestore) *)

\* C16: a restore of a snapshot that fails part-way, restoreData throwing on some
\* record, leaves the zones state exactly as it was before the restore: no record
\* of the snapshot is applied unless all are processed.
C16_ThrowingRestoreChangesNothing ==
    [][restoreLog'.state = "thrown" => zones' = zones]_vars

\* C16 witness: a restore threw after it had placed a record of the snapshot, and
\* the provider still shows the zones the server gave, with their vehicles counted
C16_Witness ==
    /\ restoreLog.state = "thrown"
    /\ \E k \in 1..Len(restoreLog.log) : restoreLog.log[k].placed # 0
    /\ zones = Normalize(srvZones)
    /\ \E i \in 1..Len(zones) : zones[i].occupied > 0
---------------------------------------------------------------------------
(* Claims about the zone form (checked under SpecForm) *)

\* C18: whenever the form is submitted, by handleCreate or by handleSaveEdit, its
\* three limits add up to its capacity, after any sequence of openCreateDialog,
\* handleEditClick and updateLimit, an edit opened on a zone whose stored capacity
\* is not the sum of its limits and saved untouched included.
C18_SubmittedLimitsSumToCapacity ==
    submitted # NoSubmit => SumStats(submitted.limits) = submitted.capacity
---------------------------------------------------------------------------
(* Claims about the auto-save interval (checked under SpecAutoSave) *)

\* C20: while the provider is mounted the auto-save fires on every tick of its
\* interval, whatever the state: it keeps firing for as long as the interval is
\* not cleared. A save that fails is only logged: the firing leaves the store as
\* it was and makes no second attempt, and the interval stays armed, so a firing
\* that failed is followed by a later one.
C20_AutoSaveKeepsFiring ==
    /\ []<>(~timer.armed \/ timer.phase = 0)
    /\ []<>(~timer.armed \/ timer.phase = 1)
    /\ [][(timer'.phase # timer.phase /\ timer'.last = "failed") =>
            /\ timer'.logged
            /\ timer'.armed
            /\ snapStore' = snapStore
            /\ saves' = saves]_vars
    /\ [][(timer'.phase # timer.phase /\ timer'.last = "saved") =>
            /\ ~timer'.logged
            /\ WithId(LatestKey, makeSnapshotFromState(zones, now)) \in snapStore']_vars

\* C20 witness: a firing whose save failed has been followed by one whose save went
\* through, with a restored vehicle in the payload under "latest"
C20_Witness ==
    /\ timer.armed
    /\ timer.prev = "failed"
    /\ timer.last = "saved"
    /\ \E o \in snapStore : o.id = LatestKey /\ Len(o.data) > 0

\* C26: a snapshot built by makeSnapshotFromState captures every parked vehicle:
\* in every state the provider reaches, the snapshot's recordCount is the length
\* of its data and is the sum of occupied over all zones at that moment.
C26_SnapshotCountsEveryVehicle ==
    LET snapshot == makeSnapshotFromState(zones, now)
    IN /\ snapshot.meta.recordCount = Len(snapshot.data)
       /\ snapshot.meta.recordCount = totalOccupied(zones)
---------------------------------------------------------------------------
(* Further claims about restoreData (checked under SpecRestore) *)

\* what a restore is to leave alone: which zones there are, and the id, name,
\* capacity and limits of each
Frame(zs) ==
    [i \in 1..Len(zs) |->
        [id |-> zs[i].id, name |-> zs[i].name, capacity |-> zs[i].capacity,
         limits |-> zs[i].limits]]

\* C24: restoreData changes only occupancy: the zones after a restore have the ids,
\* names, capacities and limits of the zones state before it (zones an admin
\* created or edited are neither dropped nor replaced); only occupied, stats and
\* vehicles differ.
C24_RestoreKeepsTheZones ==
    [][(restoreLog'.state = "set" /\ Len(zones) > 0) =>
         Frame(zones') = Frame(zones)]_vars

\* C25: after restoreData(records) no plate is parked twice: over the vehicles
\* lists of all zones each plate number occurs at most once, also when the list
\* holds several open records of one plate.
C25_NoPlateParkedTwice ==
    restoreLog.state = "set" =>
       \A k, l \in 1..Len(zones) :
          \A i \in 1..Len(zones[k].vehicles), j \in 1..Len(zones[l].vehicles) :
             zones[k].vehicles[i].number = zones[l].vehicles[j].number =>
                (k = l /\ i = j)

\* C29: the vehicles one restoreData call creates have pairwise distinct ticket
\* ids, also when several records are processed at one clock value.
C29_TicketIdsDistinct ==
    restoreLog.state = "set" =>
       \A k, l \in 1..Len(zones) :
          \A i \in 1..Len(zones[k].vehicles), j \in 1..Len(zones[l].vehicles) :
             zones[k].vehicles[i].ticketId = zones[l].vehicles[j].ticketId =>
                (k = l /\ i = j)
---------------------------------------------------------------------------
(* Claims about snapshot and restore together (checked under SpecRoundTrip) *)

\* every zone counts exactly the vehicles it lists, within its capacity and its
\* class limits
Consistent(zs) ==
    \A k \in 1..Len(zs) :
       /\ zs[k].occupied = Len(zs[k].vehicles)
       /\ zs[k].occupied <= zs[k].capacity
       /\ \A t \in VehicleTypes : zs[k].stats[t] <= zs[k].limits[t]

\* occupied and stats of each zone
Occupancy(zs) ==
    [k \in 1..Len(zs) |-> [occupied |-> zs[k].occupied, stats |-> zs[k].stats]]

\* C27: snapshot then restore is a round trip on occupancy: for a zones state in
\* which every zone has occupied = vehicles.length within its capacity and class
\* limits, restoreData(makeSnapshotFromState(zones).data) gives zones whose
\* occupied and stats per zone are those of the state the snapshot was taken of.
C27_SnapshotRestoreRoundTrip ==
    [][(/\ Consistent(zones)
        /\ records' = makeSnapshotFromState(zones, now).data
        /\ restoreLog'.state \in {"set", "deferred"}) =>
         Occupancy(zones') = Occupancy(zones)]_vars
---------------------------------------------------------------------------
(* Claims about zone administration on the server (checked under SpecEntry) *)

\* C23: server zone ids are unique and a creation never overwrites: after any
\* sequence of createZone and deleteZone calls, a createZone adds its zone under an
\* id no stored zone has, so the store grows by exactly one zone and every zone
\* that was there keeps its occupied, stats and limits.
C23_CreateNeverOverwrites ==
    [][(/\ entries' = entries
        /\ srvZones' # srvZones
        /\ Len(srvZones') >= Len(srvZones)) =>
         /\ Len(srvZones') = Len(srvZones) + 1
         /\ \A i \in 1..Len(srvZones) : srvZones'[i] = srvZones[i]
         /\ \A i, j \in 1..Len(srvZones') :
              srvZones'[i].id = srvZones'[j].id => i = j]_vars

\* C28 (checked under SpecZoneEdit): a zone edit keeps capacity consistent with
\* limits on the server: after updateZone(id, {name, limits}) has succeeded, a
\* zone whose capacity was the sum of its limits before the edit has a capacity
\* that is the sum of its limits after it, whatever the new limits are.
C28_EditKeepsCapacityTheSum ==
    [][(entries' = entries /\ Len(srvZones') = Len(srvZones)) =>
         \A i \in 1..Len(srvZones) :
            srvZones[i].capacity = SumStats(srvZones[i].limits) =>
               srvZones'[i].capacity = SumStats(srvZones'[i].limits)]_vars
---------------------------------------------------------------------------
(* Claims about the polling pages (checked under SpecPoll) *)

\* C22: once the server's zones stop changing and the polls keep succeeding, the
\* zones state of a polling page comes to equal the server's zones and stays equal
\* (for as long as the page is mounted).
C22_PollingConverges ==
    <>[](poll.mounted => poll.shown = srvZones)

\* the page shows the zones the server holds after the last entry it takes, every
\* fetch has landed, and the page is still polling
C22_Witness ==
    /\ entries = MaxEntries
    /\ poll.mounted
    /\ poll.flight = <<>>
    /\ poll.shown = srvZones
    /\ poll.shown # TwoZonesBusy

\* C30: poll responses are applied in request order: the response to an older
\* request never overwrites the zones state set from the response to a newer
\* request, and no response is applied after the page has unmounted.
C30_AppliedInRequestOrder ==
    [][/\ poll'.version >= poll.version
       /\ ~poll.mounted => poll'.shown = poll.shown]_vars
====
